---- MODULE Spec2Model ----
(***************************************************************************)
(* The streaming chat pipeline of src-tauri/src/chat.rs: the cancellation  *)
(* registry ACTIVE_STREAMS, the command stop_chat_streaming, and one turn   *)
(* of chat_with_loaded_model_streaming with process_stream_with_tool_calls *)
(* and continue_conversation_after_tools, cut into one action per          *)
(* stretch of code between two await points.                               *)
(*                                                                         *)
(* should_use_modern_tool_format (chat.rs:206-215) returns false for every *)
(* model name, so use_modern_format is false in every turn: the structured *)
(* tool-call branches (chat.rs:531-557, 627-644, 769-898) never run and    *)
(* are not modelled as actions.  With them gone process_stream_with_       *)
(* tool_calls has no Err return: handle_tool_result always returns Ok(()). *)
(* The registry lock is poisoned only by a panic inside a critical         *)
(* section; none of the three critical sections can panic, so lock() is    *)
(* modelled as always succeeding.                                          *)
(*                                                                         *)
(* Text is a sequence of symbols: the four delimiters, a newline, and      *)
(* payload symbols standing for a piece of text without delimiters.        *)
(*                                                                         *)
(* Spec is one turn with tool calls and a continuation, SpecConcurrent two *)
(* turns of prose, SpecTools one turn calling two tools, SpecEcho one turn *)
(* whose tool returns a call block, and SpecText and SpecStrip the text    *)
(* functions applied to every text up to MaxTextLen symbols.               *)
(*                                                                         *)
(* SpecMcp is two concurrent call_mcp_tool calls of mcp/commands.rs on the *)
(* manager slot MCP_MANAGER.  SpecTasks is the scheduler loop of tasks.rs  *)
(* with the commands toggle_task and execute_task_manually and the spawned *)
(* execute_task_action tasks, for the triggers DateTime and EveryNMinutes; *)
(* SpecLogs is add_execution_log called for two tasks.                     *)
(***************************************************************************)
EXTENDS Integers, Sequences, FiniteSets, TLC

\* ------------------------------------------------------------ bounds
\* Most Ok items the backend delivers on the primary stream of one turn.
MaxTokens == 3
\* Most Ok items the backend delivers on the continuation stream.
MaxContTokens == 1
\* Most stop_chat_streaming calls in one behaviour.
MaxStops == 2
\* Longest text, in symbols, the text functions are called with.
MaxTextLen == 6
\* Most execute_task_action tasks spawned in one behaviour.
MaxExecs == 2
\* Last minute the clock reaches.
MaxNow == 1
\* Most add_execution_log calls for the task whose logs fill up, and for
\* the other task.
MaxAdds == 102
MaxOtherAdds == 2

\* if task_logs.len() >= 100
MaxLogsPerTask == 100

Turns == {"t1", "t2"}
\* session_id is Some("s1") or None; None becomes the stream id "temp".
SessionIds == {"s1", "none"}
StreamIds == {"s1", "temp"}

NoSender == "no_sender"

\* ------------------------------------------------------------ text
OPEN_CALL == "<tool_call>"
CLOSE_CALL == "</tool_call>"
OPEN_RESP == "<tool_response>"
CLOSE_RESP == "</tool_response>"
NL == "\n"

\* Payload symbols.  A and A2 are two spellings of the same call (the keys in
\* another order), B is a call of another tool, J is JSON that is no call,
\* x is prose (not JSON).
CallPayloads == {"A", "A2", "B"}

\* serde_json::from_str accepts white space around the value: a block's
\* content is JSON when, newlines dropped, it is one JSON payload.
RECURSIVE trim_nl(_)
trim_nl(s) ==
  IF s = <<>> THEN <<>>
  ELSE IF Head(s) = NL THEN trim_nl(Tail(s))
  ELSE IF s[Len(s)] = NL THEN trim_nl(SubSeq(s, 1, Len(s) - 1))
  ELSE s

\* parsed.get("name").as_str() and serde_json::to_string(arguments.as_object())
name_of(p) == IF p = "B" THEN <<"b">> ELSE <<"a">>
args_of(p) == <<"{}">>

\* First index >= from at which text holds sym, 0 when there is none
\* (str::find on the slice text[from..]).
find(text, from, sym) ==
  LET hits == {i \in from..Len(text) : text[i] = sym}
  IN IF hits = {} THEN 0
     ELSE CHOOSE i \in hits : \A j \in hits : i <= j

\* Last index at which text holds sym, 0 when there is none (str::rfind).
rfind(text, sym) ==
  LET hits == {i \in 1..Len(text) : text[i] = sym}
  IN IF hits = {} THEN 0
     ELSE CHOOSE i \in hits : \A j \in hits : i >= j

\* The calls of one block's content: one pair when it parses, none otherwise.
parse_call(content) ==
  LET c == trim_nl(content)
  IN IF Len(c) = 1 /\ c[1] \in CallPayloads
     THEN << <<name_of(c[1]), args_of(c[1])>> >>
     ELSE <<>>

\* A scan that stops after the first block it finds.
extract_from_once(text, search_start) ==
  LET actual_start == find(text, search_start, OPEN_CALL)
  IN IF actual_start = 0 THEN <<>>
     ELSE LET actual_end == find(text, actual_start, CLOSE_CALL)
          IN IF actual_end = 0 THEN <<>>
             ELSE parse_call(SubSeq(text, actual_start + 1, actual_end - 1))

\* The while loop of extract_all_tool_calls_from_xml from search_start on.
RECURSIVE extract_from(_, _)
extract_from(text, search_start) ==
  LET actual_start == find(text, search_start, OPEN_CALL)
  IN IF actual_start = 0 THEN <<>>
     ELSE LET actual_end == find(text, actual_start, CLOSE_CALL)
          IN IF actual_end = 0 THEN <<>>
             ELSE parse_call(SubSeq(text, actual_start + 1, actual_end - 1))
                  \o extract_from(text, actual_end + 1)

extract_all_tool_calls_from_xml(text) == extract_from(text, 1)

has_incomplete_tool_call(text) ==
  LET start == rfind(text, OPEN_CALL)
  IN IF start = 0 THEN FALSE
     ELSE find(text, start, CLOSE_CALL) = 0

check_if_continuation_needed(text) == find(text, 1, OPEN_RESP) # 0

\* The while loop of strip_tool_xml_tags from current_pos on: what it pushes
\* onto result.  It looks for a call block first, anywhere in the rest, and
\* for a response block only when the rest holds no open call delimiter.
RECURSIVE strip_from(_, _)
strip_from(content, current_pos) ==
  IF current_pos > Len(content) THEN <<>>
  ELSE LET tool_call_start == find(content, current_pos, OPEN_CALL)
           tool_response_start == find(content, current_pos, OPEN_RESP)
       IN IF tool_call_start # 0
          THEN SubSeq(content, current_pos, tool_call_start - 1)
               \o (LET tool_call_end == find(content, tool_call_start, CLOSE_CALL)
                   IN IF tool_call_end # 0
                      THEN strip_from(content, tool_call_end + 1)
                      ELSE <<>>)
          ELSE IF tool_response_start # 0
          THEN SubSeq(content, current_pos, tool_response_start - 1)
               \o (LET tool_response_end == find(content, tool_response_start, CLOSE_RESP)
                   IN IF tool_response_end # 0
                      THEN strip_from(content, tool_response_end + 1)
                      ELSE <<>>)
          ELSE SubSeq(content, current_pos, Len(content))

\* result.trim().to_string()
strip_tool_xml_tags(content) == trim_nl(strip_from(content, 1))

\* format!("{}:{}", fn_name, fn_args)
tool_signature(call) == call[1] \o <<":">> \o call[2]

\* A scan that forgets the executed set.
already_executed_never(executed, call) == FALSE

\* executed_tools.contains(&tool_signature)
already_executed(executed, call) == tool_signature(call) \in executed

\* format!("\n<tool_response>\n{}\n</tool_response>", result)
tool_response_text(result) == <<NL, OPEN_RESP, NL>> \o result \o <<NL, CLOSE_RESP>>
\* format!("\n<tool_response>\nError: {}\n</tool_response>", e)
error_response_text(e) == <<NL, OPEN_RESP, NL, "Error: ">> \o e \o <<NL, CLOSE_RESP>>
\* format!("\n\n[Continuation Error: {}]", e)
continuation_error_text(e) == <<NL, NL, "[Continuation Error: ">> \o e \o <<"]">>


\* ------------------------------------------------------------ inputs
\* delta.content of one stream item: prose, a whole call block, an opened
\* call block, a close delimiter.
Fragments ==
  { <<"x">>,
    <<OPEN_CALL, "A", CLOSE_CALL>>,
    <<OPEN_CALL, "A2">>,
    <<CLOSE_CALL>> }
\* The content of the items of a continuation stream: prose and then a
\* whole call block, of a tool the primary stream never calls.
ContFragments == { <<"x", OPEN_CALL, "B", CLOSE_CALL>> }
\* A stream item: delta.content (<<>> for None), finish_reason, usage.
ContentItems(frags) ==
  {[content |-> f, finish |-> FALSE, usage |-> FALSE] : f \in frags}
FinishItem == [content |-> <<>>, finish |-> TRUE, usage |-> TRUE]
\* What mcp::call_mcp_tool returns: Ok(text) or Err(text).
ToolResults == {[ok |-> TRUE, text |-> <<"J">>], [ok |-> FALSE, text |-> <<"x">>]}
\* The text of an OpenAIError.
ErrText == <<"e">>

\* ------------------------------------------------------------ state
VARIABLES
  ACTIVE_STREAMS,      \* stream id -> the turn whose Sender the map holds
  pc,                  \* where each turn's task stands
  session_id,          \* the session_id argument of each turn
  cancel_rx,           \* each turn's broadcast channel, seen from its Receiver
  consumed,            \* Ok items pulled from the primary stream
  full_response,
  executed_tools,
  needs_continuation,
  usage_data,          \* whether usage was captured
  was_cancelled,
  tool_calls,          \* what is left of the for loop over the extracted calls
  continued_response,
  cont_consumed,       \* Ok items pulled from the continuation stream
  log,                 \* per turn: what it emitted and which calls it made, in order
  signalled_at,        \* pc of the turn when stop_chat_streaming signalled it
  replaced_prior,      \* whether the turn's insert replaced an entry
  latest_registrant,   \* stream id -> the turn that registered it last
  no_token_at_signal,  \* the turn was signalled with none of its items consumed
  stop_calls,          \* stop_chat_streaming calls so far
  last_stop,           \* the last stop_chat_streaming call and what it returned
  input,               \* the &str argument the text functions are called with
  output,              \* what the text functions returned for input
  MCP_MANAGER,         \* the Option<McpManager> behind the global mutex
  mcp_pc,              \* where each call_mcp_tool call stands
  temp_manager,        \* the manager each call_mcp_tool call took out
  call_result,         \* what each call_mcp_tool call returned
  tasks,               \* TaskScheduler.tasks: task id -> Task
  utc_now,             \* Utc::now()
  exec,                \* the spawned execute_task_action tasks
  execution_logs,      \* TaskScheduler.execution_logs
  logs_added           \* per task: add_execution_log calls so far

turnVars == <<pc, session_id, consumed, full_response, executed_tools,
              needs_continuation, usage_data, was_cancelled, tool_calls,
              continued_response, cont_consumed, log>>
stopVars == <<signalled_at, no_token_at_signal, stop_calls, last_stop>>
regVars == <<replaced_prior, latest_registrant>>
scanVars == <<input, output>>
mcpVars == <<MCP_MANAGER, mcp_pc, temp_manager, call_result>>
taskVars == <<tasks, utc_now, exec, execution_logs, logs_added>>
restVars == <<scanVars, mcpVars, taskVars>>
vars == <<ACTIVE_STREAMS, cancel_rx, regVars, turnVars, stopVars, scanVars,
          mcpVars, taskVars>>

\* session_id.clone().unwrap_or_else(|| "temp".to_string())
stream_id(t) == IF session_id[t] = "none" THEN "temp" ELSE session_id[t]

Entry(ev, arg) == [ev |-> ev, arg |-> arg]
Emit(t, entries) == log' = [log EXCEPT ![t] = @ \o entries]

\* app.emit("chat-token", {token, finished: false})
chat_token(text) == Entry("chat-token", text)
\* app.emit("chat-token", {token: "", finished: true, cancelled, usage})
chat_finished(cancelled, usage) ==
  Entry("chat-finished", [cancelled |-> cancelled, usage |-> usage])

\* An insert that keeps the entry the map already holds (first wins).
hashmap_insert_keep(m, k, v) == IF m[k] = NoSender THEN [m EXCEPT ![k] = v] ELSE m
\* A remove that leaves the map as it is.
hashmap_remove_noop(m, k) == m
\* A remove that empties the map.
hashmap_remove_clear(m, k) == [id \in DOMAIN m |-> NoSender]

\* HashMap::insert and HashMap::remove on ACTIVE_STREAMS
hashmap_insert(m, k, v) == [m EXCEPT ![k] = v]
hashmap_remove(m, k) == [m EXCEPT ![k] = NoSender]

\* A Sender that leaves the map without a send is dropped: the Receiver of
\* its channel then finds the channel closed.
drop_sender(rx, u) ==
  IF u # NoSender /\ rx[u] = "open" THEN [rx EXCEPT ![u] = "closed"] ELSE rx

\* No turn was started, no stop was asked for.
InitTurns ==
  /\ ACTIVE_STREAMS = [id \in StreamIds |-> NoSender]
  /\ pc = [t \in Turns |-> "idle"]
  /\ session_id = [t \in Turns |-> "none"]
  /\ cancel_rx = [t \in Turns |-> "none"]
  /\ consumed = [t \in Turns |-> 0]
  /\ full_response = [t \in Turns |-> <<>>]
  /\ executed_tools = [t \in Turns |-> {}]
  /\ needs_continuation = [t \in Turns |-> FALSE]
  /\ usage_data = [t \in Turns |-> FALSE]
  /\ was_cancelled = [t \in Turns |-> FALSE]
  /\ tool_calls = [t \in Turns |-> <<>>]
  /\ continued_response = [t \in Turns |-> <<>>]
  /\ cont_consumed = [t \in Turns |-> 0]
  /\ log = [t \in Turns |-> <<>>]
  /\ signalled_at = [t \in Turns |-> "none"]
  /\ no_token_at_signal = [t \in Turns |-> FALSE]
  /\ replaced_prior = [t \in Turns |-> FALSE]
  /\ latest_registrant = [id \in StreamIds |-> NoSender]
  /\ stop_calls = 0
  /\ last_stop = [id |-> "none", found |-> FALSE]

\* Neither text function was called yet: called holds the names of those
\* that were, the other fields what they returned.
NoOutput == [called |-> {}, calls |-> <<>>, incomplete |-> FALSE,
             stripped |-> <<>>, restripped |-> <<>>]

\* ------------------------------------------------------------ MCP manager
\* The call_mcp_tool calls in flight at the same time.
Calls == {"c1", "c2"}
NoManager == "None"
\* The manager the slot holds before the calls: its servers are connected.
ConnectedManager == "connected"
\* McpManager::new(config): a manager with no server connected.
McpManager_new(c) == IF c = "c1" THEN "new_by_c1" ELSE "new_by_c2"

\* static ref MCP_MANAGER = Arc::new(Mutex::new(None)); no call was made.
InitNoCalls ==
  /\ MCP_MANAGER = NoManager
  /\ mcp_pc = [c \in Calls |-> "idle"]
  /\ temp_manager = [c \in Calls |-> NoManager]
  /\ call_result = [c \in Calls |-> "none"]

\* ------------------------------------------------------------ scheduled tasks
TaskIds == {"k1", "k2"}
Execs == 1..MaxExecs

\* Option<DateTime<Utc>> and Option<RepeatInterval>
None == [some |-> FALSE, v |-> 0]
Some(v) == [some |-> TRUE, v |-> v]

NoTask == [id |-> "none", enabled |-> FALSE, trigger_time |-> [type |-> "none", v |-> 0],
           repeat_interval |-> None, last_run |-> None, next_run |-> None,
           run_count |-> 0, auto_delete |-> FALSE]
\* A slot no execute_task_action task runs in.
NoExec == [pc |-> "free", task |-> NoTask, origin |-> "none",
           execution_success |-> FALSE]

\* TaskScheduler::new(), nothing spawned.
InitNoTasks ==
  /\ tasks = <<>>
  /\ utc_now = 0
  /\ exec = [e \in Execs |-> NoExec]
  /\ execution_logs = <<>>
  /\ logs_added = [id \in TaskIds |-> 0]

Init ==
  /\ InitTurns
  /\ input = <<>>
  /\ output = NoOutput
  /\ InitNoCalls
  /\ InitNoTasks


\* ------------------------------------------------------------ one turn
\* chat_with_loaded_model_streaming is called: the request is built.
StartTurn(t, sid) ==
  /\ pc[t] = "idle"
  /\ pc' = [pc EXCEPT ![t] = "create_stream"]
  /\ session_id' = [session_id EXCEPT ![t] = sid]
  /\ UNCHANGED <<ACTIVE_STREAMS, cancel_rx, regVars, stopVars, restVars, consumed,
                 full_response, executed_tools, needs_continuation, usage_data,
                 was_cancelled, tool_calls, continued_response, cont_consumed, log>>

\* client.chat().create_stream(request).await returns: the backend stream is
\* open, or the call failed and the turn returns Err.
CreateStream(t) ==
  /\ pc[t] = "create_stream"
  /\ \/ pc' = [pc EXCEPT ![t] = "register"]
     \/ pc' = [pc EXCEPT ![t] = "failed"]
  /\ UNCHANGED <<ACTIVE_STREAMS, cancel_rx, regVars, stopVars, restVars, session_id,
                 consumed, full_response, executed_tools, needs_continuation,
                 usage_data, was_cancelled, tool_calls, continued_response,
                 cont_consumed, log>>

\* broadcast::channel(1), then streams.insert(stream_id, cancel_tx): the
\* Sender the map held for the id, if any, is dropped.
Register(t) ==
  /\ pc[t] = "register"
  /\ ACTIVE_STREAMS' = hashmap_insert(ACTIVE_STREAMS, stream_id(t), t)
  /\ cancel_rx' = [drop_sender(cancel_rx, ACTIVE_STREAMS[stream_id(t)]) EXCEPT ![t] = "open"]
  /\ replaced_prior' = [replaced_prior EXCEPT ![t] = ACTIVE_STREAMS[stream_id(t)] # NoSender]
  /\ latest_registrant' = [latest_registrant EXCEPT ![stream_id(t)] = t]
  /\ pc' = [pc EXCEPT ![t] = "select"]
  /\ UNCHANGED <<stopVars, restVars, session_id, consumed, full_response, executed_tools,
                 needs_continuation, usage_data, was_cancelled, tool_calls,
                 continued_response, cont_consumed, log>>

\* The calls of the for loop that the executed set lets through.
RECURSIVE skip_executed(_, _)
skip_executed(executed, calls) ==
  IF calls = <<>> THEN <<>>
  ELSE IF already_executed(executed, Head(calls))
       THEN skip_executed(executed, Tail(calls))
       ELSE calls

\* The for loop over tool_calls, up to its next await: the next call that is
\* not in executed_tools is marked executed and execute_tool_call is entered;
\* with no such call the loop body ends and select! is polled again.
ToolLoop(t, calls, entries) ==
  LET rest == skip_executed(executed_tools[t], calls)
  IN IF rest = <<>>
     THEN /\ pc' = [pc EXCEPT ![t] = "select"]
          /\ tool_calls' = [tool_calls EXCEPT ![t] = <<>>]
          /\ Emit(t, entries)
          /\ UNCHANGED executed_tools
     ELSE /\ pc' = [pc EXCEPT ![t] = "execute_tool_call"]
          /\ tool_calls' = [tool_calls EXCEPT ![t] = rest]
          /\ executed_tools' = [executed_tools EXCEPT ![t] = @ \cup {tool_signature(Head(rest))}]
          /\ Emit(t, entries \o <<Entry("execute_tool_call", Head(rest))>>)

\* The code after the loop, up to its next await: the continuation request
\* is sent when needs_continuation is set and the text holds a response
\* block; otherwise process_stream_with_tool_calls returns.
AfterLoop(t, entries) ==
  IF needs_continuation[t] /\ check_if_continuation_needed(full_response[t])
  THEN /\ pc' = [pc EXCEPT ![t] = "cont_create"]
       /\ Emit(t, entries \o <<Entry("continuation_request", <<>>)>>)
  ELSE /\ pc' = [pc EXCEPT ![t] = "cleanup"]
       /\ Emit(t, entries)

\* select!: the branch cancel_rx.recv() completes, with Ok(()) when a signal
\* is queued and with Err(Closed) when every Sender is gone.
SelectCancel(t) ==
  /\ pc[t] = "select"
  /\ cancel_rx[t] \in {"signalled", "closed"}
  /\ was_cancelled' = [was_cancelled EXCEPT ![t] = TRUE]
  /\ cancel_rx' = [cancel_rx EXCEPT ![t] = "closed"]
  /\ AfterLoop(t, <<Entry("cancel_rx.recv", cancel_rx[t])>>)
  /\ UNCHANGED <<ACTIVE_STREAMS, regVars, stopVars, restVars, session_id, consumed,
                 full_response, executed_tools, needs_continuation, usage_data,
                 tool_calls, continued_response, cont_consumed>>

\* select!: the branch stream.next() completes with None.
StreamEnd(t) ==
  /\ pc[t] = "select"
  /\ AfterLoop(t, <<Entry("stream.next", "None")>>)
  /\ UNCHANGED <<ACTIVE_STREAMS, cancel_rx, regVars, stopVars, restVars, session_id,
                 consumed, full_response, executed_tools, needs_continuation,
                 usage_data, was_cancelled, tool_calls, continued_response,
                 cont_consumed>>

\* A stream error that is reported and then lets the loop go on (continue
\* where the code has break).
StreamError_continue(t) ==
  /\ pc[t] = "select"
  /\ \A i \in 1..Len(log[t]) : log[t][i].ev # "chat-error"
  /\ Emit(t, <<Entry("stream.next", "Err"), Entry("chat-error", ErrText)>>)
  /\ UNCHANGED <<ACTIVE_STREAMS, cancel_rx, regVars, stopVars, restVars, pc,
                 session_id, consumed, full_response, executed_tools,
                 needs_continuation, usage_data, was_cancelled, tool_calls,
                 continued_response, cont_consumed>>

\* A stream error that ends the loop without the chat-error event.
StreamError_silent(t) ==
  /\ pc[t] = "select"
  /\ AfterLoop(t, <<Entry("stream.next", "Err")>>)
  /\ UNCHANGED <<ACTIVE_STREAMS, cancel_rx, regVars, stopVars, restVars, session_id,
                 consumed, full_response, executed_tools, needs_continuation,
                 usage_data, was_cancelled, tool_calls, continued_response,
                 cont_consumed>>

\* select!: the branch stream.next() completes with Some(Err(err)).
StreamError(t) ==
  /\ pc[t] = "select"
  /\ AfterLoop(t, <<Entry("stream.next", "Err"), Entry("chat-error", ErrText)>>)
  /\ UNCHANGED <<ACTIVE_STREAMS, cancel_rx, regVars, stopVars, restVars, session_id,
                 consumed, full_response, executed_tools, needs_continuation,
                 usage_data, was_cancelled, tool_calls, continued_response,
                 cont_consumed>>

\* A loop that polls the stream while a tool execution is awaited.
StreamItem_concurrent(t, item) ==
  /\ pc[t] \in {"select", "execute_tool_call"}
  /\ consumed[t] < MaxTokens
  /\ consumed' = [consumed EXCEPT ![t] = @ + 1]
  /\ usage_data' = [usage_data EXCEPT ![t] = @ \/ item.usage]
  /\ full_response' = [full_response EXCEPT ![t] = @ \o item.content]
  /\ IF item.content # <<>>
     THEN ToolLoop(t, extract_all_tool_calls_from_xml(full_response'[t]),
                   <<Entry("stream.next", "Ok"), chat_token(item.content)>>)
     ELSE ToolLoop(t, <<>>,
                   <<Entry("stream.next", "Ok")>>
                   \o (IF item.finish /\ has_incomplete_tool_call(full_response'[t])
                       THEN <<Entry("log_warning", "incomplete tool call")>>
                       ELSE <<>>))
  /\ UNCHANGED <<ACTIVE_STREAMS, cancel_rx, regVars, stopVars, restVars, session_id,
                 needs_continuation, was_cancelled, continued_response,
                 cont_consumed>>

\* select!: the branch stream.next() completes with Some(Ok(response)).  An
\* item carries content or a finish_reason, never both here, so the check
\* on finish_reason comes with no tool call in between.
StreamItem(t, item) ==
  /\ pc[t] = "select"
  /\ consumed[t] < MaxTokens
  /\ consumed' = [consumed EXCEPT ![t] = @ + 1]
  /\ usage_data' = [usage_data EXCEPT ![t] = @ \/ item.usage]
  /\ full_response' = [full_response EXCEPT ![t] = @ \o item.content]
  /\ IF item.content # <<>>
     THEN ToolLoop(t, extract_all_tool_calls_from_xml(full_response'[t]),
                   <<Entry("stream.next", "Ok"), chat_token(item.content)>>)
     ELSE ToolLoop(t, <<>>,
                   <<Entry("stream.next", "Ok")>>
                   \o (IF item.finish /\ has_incomplete_tool_call(full_response'[t])
                       THEN <<Entry("log_warning", "incomplete tool call")>>
                       ELSE <<>>))
  /\ UNCHANGED <<ACTIVE_STREAMS, cancel_rx, regVars, stopVars, restVars, session_id,
                 needs_continuation, was_cancelled, continued_response,
                 cont_consumed>>

\* A handle_tool_result that hands the tool's Err to its caller, whose `?`
\* then returns it from the turn.
ToolReturn_fatal(t, tool_result) ==
  /\ pc[t] = "execute_tool_call"
  /\ ~tool_result.ok
  /\ pc' = [pc EXCEPT ![t] = "failed"]
  /\ Emit(t, <<Entry("tool_result", "Err")>>)
  /\ UNCHANGED <<ACTIVE_STREAMS, cancel_rx, regVars, stopVars, restVars,
                 session_id, consumed, full_response, executed_tools,
                 needs_continuation, usage_data, was_cancelled, tool_calls,
                 continued_response, cont_consumed>>

\* execute_tool_call(...).await returns (logged as tool_result) and
\* handle_tool_result runs, then the for loop goes on.
ToolReturn(t, tool_result) ==
  /\ pc[t] = "execute_tool_call"
  /\ LET call == Head(tool_calls[t])
         text == IF tool_result.ok THEN tool_response_text(tool_result.text)
                 ELSE error_response_text(tool_result.text)
         entries == <<Entry("tool_result", IF tool_result.ok THEN "Ok" ELSE "Err")>>
                    \o (IF tool_result.ok
                        THEN <<Entry("tool-call", <<call[1], call[2], tool_result.text>>),
                               chat_token(text)>>
                        ELSE <<chat_token(text)>>)
     IN /\ full_response' = [full_response EXCEPT ![t] = @ \o text]
        /\ needs_continuation' = [needs_continuation EXCEPT ![t] = TRUE]
        /\ ToolLoop(t, Tail(tool_calls[t]), entries)
  /\ UNCHANGED <<ACTIVE_STREAMS, cancel_rx, regVars, stopVars, restVars, session_id,
                 consumed, usage_data, was_cancelled, continued_response,
                 cont_consumed>>


\* A continuation whose Err is handed on with `?`: the turn returns Err.
ContinuationFailed_propagate(t) ==
  /\ Emit(t, <<Entry("continue_conversation_after_tools", "Err")>>)
  /\ pc' = [pc EXCEPT ![t] = "failed"]
  /\ UNCHANGED full_response

\* The Err arm of the match on continue_conversation_after_tools: the note
\* is appended and emitted, and process_stream_with_tool_calls returns.
ContinuationFailed(t) ==
  /\ full_response' = [full_response EXCEPT ![t] = @ \o continuation_error_text(ErrText)]
  /\ Emit(t, <<Entry("continue_conversation_after_tools", "Err"),
               chat_token(continuation_error_text(ErrText))>>)
  /\ pc' = [pc EXCEPT ![t] = "cleanup"]

\* continue_conversation_after_tools: create_stream(request).await returns.
ContCreate(t) ==
  /\ pc[t] = "cont_create"
  /\ \/ /\ pc' = [pc EXCEPT ![t] = "cont_stream"]
        /\ UNCHANGED <<full_response, log>>
     \/ ContinuationFailed(t)
  /\ UNCHANGED <<ACTIVE_STREAMS, cancel_rx, regVars, stopVars, restVars, session_id,
                 consumed, executed_tools, needs_continuation, usage_data,
                 was_cancelled, tool_calls, continued_response, cont_consumed>>

\* A continuation loop that scans what it has streamed for call blocks, as
\* the primary loop does.
ContItem_scanned(t, item) ==
  /\ pc[t] = "cont_stream"
  /\ cont_consumed[t] < MaxContTokens
  /\ cont_consumed' = [cont_consumed EXCEPT ![t] = @ + 1]
  /\ continued_response' = [continued_response EXCEPT ![t] = @ \o item.content]
  /\ LET rest == skip_executed(executed_tools[t],
                               extract_all_tool_calls_from_xml(continued_response'[t]))
     IN IF rest = <<>>
        THEN /\ Emit(t, <<chat_token(item.content)>>)
             /\ UNCHANGED <<pc, tool_calls, executed_tools>>
        ELSE /\ pc' = [pc EXCEPT ![t] = "execute_tool_call"]
             /\ tool_calls' = [tool_calls EXCEPT ![t] = rest]
             /\ executed_tools' = [executed_tools EXCEPT ![t] = @ \cup {tool_signature(Head(rest))}]
             /\ Emit(t, <<chat_token(item.content), Entry("execute_tool_call", Head(rest))>>)
  /\ UNCHANGED <<ACTIVE_STREAMS, cancel_rx, regVars, stopVars, restVars,
                 session_id, consumed, full_response, needs_continuation,
                 usage_data, was_cancelled>>

\* The continuation stream yields Some(Ok(response)): the content is kept and
\* emitted.  The break on finish_reason leaves only the for loop over the
\* choices, so the while loop goes on to the next item.
ContItem(t, item) ==
  /\ pc[t] = "cont_stream"
  /\ cont_consumed[t] < MaxContTokens
  /\ cont_consumed' = [cont_consumed EXCEPT ![t] = @ + 1]
  /\ continued_response' = [continued_response EXCEPT ![t] = @ \o item.content]
  /\ Emit(t, <<chat_token(item.content)>>)
  /\ UNCHANGED <<ACTIVE_STREAMS, cancel_rx, regVars, stopVars, restVars, pc,
                 session_id, consumed, full_response, executed_tools,
                 needs_continuation, usage_data, was_cancelled, tool_calls>>

\* A continuation whose text takes the place of the accumulator.
ContEnd_replace(t) ==
  /\ pc[t] = "cont_stream"
  /\ full_response' = [full_response EXCEPT ![t] = continued_response[t]]
  /\ pc' = [pc EXCEPT ![t] = "cleanup"]
  /\ UNCHANGED <<ACTIVE_STREAMS, cancel_rx, regVars, stopVars, restVars, session_id,
                 consumed, executed_tools, needs_continuation, usage_data,
                 was_cancelled, tool_calls, continued_response, cont_consumed, log>>

\* The continuation stream yields None: Ok(continued_response) is appended
\* unless it is blank.
ContEnd(t) ==
  /\ pc[t] = "cont_stream"
  /\ full_response' = [full_response EXCEPT ![t] =
        IF trim_nl(continued_response[t]) # <<>> THEN @ \o continued_response[t] ELSE @]
  /\ pc' = [pc EXCEPT ![t] = "cleanup"]
  /\ UNCHANGED <<ACTIVE_STREAMS, cancel_rx, regVars, stopVars, restVars, session_id,
                 consumed, executed_tools, needs_continuation, usage_data,
                 was_cancelled, tool_calls, continued_response, cont_consumed, log>>

\* The continuation stream yields Some(Err(err)).
ContError(t) ==
  /\ pc[t] = "cont_stream"
  /\ ContinuationFailed(t)
  /\ UNCHANGED <<ACTIVE_STREAMS, cancel_rx, regVars, stopVars, restVars, session_id,
                 consumed, executed_tools, needs_continuation, usage_data,
                 was_cancelled, tool_calls, continued_response, cont_consumed>>

\* The cleanup block: streams.remove(&stream_id); the Sender it removes,
\* whichever turn inserted it, is dropped.
Cleanup(t) ==
  /\ pc[t] = "cleanup"
  /\ ACTIVE_STREAMS' = hashmap_remove(ACTIVE_STREAMS, stream_id(t))
  /\ cancel_rx' = drop_sender(cancel_rx, ACTIVE_STREAMS[stream_id(t)])
  /\ Emit(t, <<Entry("retire", stream_id(t))>>)
  /\ pc' = [pc EXCEPT ![t] = "emit_finished"]
  /\ UNCHANGED <<regVars, stopVars, restVars, session_id, consumed, full_response,
                 executed_tools, needs_continuation, usage_data, was_cancelled,
                 tool_calls, continued_response, cont_consumed>>

\* A turn that returns without the completion signal once it was cancelled.
EmitFinished_unless_cancelled(t) ==
  /\ pc[t] = "emit_finished"
  /\ Emit(t, IF was_cancelled[t] THEN <<>>
             ELSE <<chat_finished(was_cancelled[t], usage_data[t])>>)
  /\ pc' = [pc EXCEPT ![t] = "returned"]
  /\ UNCHANGED <<ACTIVE_STREAMS, cancel_rx, regVars, stopVars, restVars, session_id,
                 consumed, full_response, executed_tools, needs_continuation,
                 usage_data, was_cancelled, tool_calls, continued_response,
                 cont_consumed>>

\* The completion signal and, with usage captured, chat-usage; then the turn
\* returns Ok(full_response).
EmitFinished(t) ==
  /\ pc[t] = "emit_finished"
  /\ Emit(t, <<chat_finished(was_cancelled[t], usage_data[t])>>
             \o (IF usage_data[t] THEN <<Entry("chat-usage", <<>>)>> ELSE <<>>))
  /\ pc' = [pc EXCEPT ![t] = "returned"]
  /\ UNCHANGED <<ACTIVE_STREAMS, cancel_rx, regVars, stopVars, restVars, session_id,
                 consumed, full_response, executed_tools, needs_continuation,
                 usage_data, was_cancelled, tool_calls, continued_response,
                 cont_consumed>>

\* ------------------------------------------------------------ stop
\* stop_chat_streaming(session_id): the Sender is taken out of the map, the
\* signal is sent and Ok is returned; Err when the map holds none.
stop_chat_streaming(id) ==
  /\ stop_calls < MaxStops
  /\ stop_calls' = stop_calls + 1
  /\ LET sender == ACTIVE_STREAMS[id]
     IN /\ ACTIVE_STREAMS' = hashmap_remove(ACTIVE_STREAMS, id)
        /\ last_stop' = [id |-> id, found |-> sender # NoSender]
        /\ IF sender # NoSender
           THEN /\ cancel_rx' = [cancel_rx EXCEPT ![sender] = "signalled"]
                /\ signalled_at' = [signalled_at EXCEPT ![sender] = pc[sender]]
                /\ no_token_at_signal' =
                     [no_token_at_signal EXCEPT ![sender] = (consumed[sender] = 0)]
           ELSE UNCHANGED <<cancel_rx, signalled_at, no_token_at_signal>>
  /\ UNCHANGED <<regVars, turnVars, restVars>>

\* ------------------------------------------------------------ specification
TurnStep(t, frags) ==
  \/ StartTurn(t, "s1")
  \/ CreateStream(t)
  \/ Register(t)
  \/ SelectCancel(t)
  \/ StreamEnd(t)
  \/ StreamError(t)
  \/ \E item \in ContentItems(frags) \cup {FinishItem} : StreamItem(t, item)
  \/ \E r \in ToolResults : ToolReturn(t, r)
  \/ ContCreate(t)
  \/ \E item \in ContentItems(ContFragments) : ContItem(t, item)
  \/ ContEnd(t)
  \/ ContError(t)
  \/ Cleanup(t)
  \/ EmitFinished(t)

\* One turn of session s1 against stop requests for either stream id.
Next ==
  \/ TurnStep("t1", Fragments)
  \/ \E id \in StreamIds : stop_chat_streaming(id)

Spec == Init /\ [][Next]_vars

\* Two turns at once, whose backends stream prose only (no call block, so
\* no tool runs and no continuation is asked for), against stop requests.
ProseStep(t) ==
  \/ \E sid \in SessionIds : StartTurn(t, sid)
  \/ CreateStream(t)
  \/ Register(t)
  \/ SelectCancel(t)
  \/ StreamEnd(t)
  \/ StreamError(t)
  \/ StreamItem(t, [content |-> <<"x">>, finish |-> FALSE, usage |-> FALSE])
  \/ Cleanup(t)
  \/ EmitFinished(t)

NextConcurrent ==
  \/ \E t \in Turns : ProseStep(t)
  \/ \E id \in StreamIds : stop_chat_streaming(id)

SpecConcurrent == Init /\ [][NextConcurrent]_vars

\* One turn whose backend streams call blocks of two tools, one block or two
\* in an item and nothing else, against stop requests for its id.
ToolFragments ==
  { <<OPEN_CALL, "A", CLOSE_CALL>>,
    <<OPEN_CALL, "B", CLOSE_CALL>>,
    <<OPEN_CALL, "A", CLOSE_CALL, OPEN_CALL, "B", CLOSE_CALL>> }

NextTools ==
  \/ TurnStep("t1", ToolFragments)
  \/ stop_chat_streaming("s1")

SpecTools == Init /\ [][NextTools]_vars

\* One turn whose tool returns a text that holds a whole call block of
\* another tool, against stop requests for its id.
EchoFragments == { <<"x">>, <<OPEN_CALL, "A", CLOSE_CALL>> }
EchoResults == {[ok |-> TRUE, text |-> <<OPEN_CALL, "B", CLOSE_CALL>>]}

NextEcho ==
  \/ StartTurn("t1", "s1")
  \/ CreateStream("t1")
  \/ Register("t1")
  \/ SelectCancel("t1")
  \/ StreamEnd("t1")
  \/ StreamError("t1")
  \/ \E item \in ContentItems(EchoFragments) \cup {FinishItem} : StreamItem("t1", item)
  \/ \E r \in EchoResults : ToolReturn("t1", r)
  \/ ContCreate("t1")
  \/ \E item \in ContentItems(ContFragments) : ContItem("t1", item)
  \/ ContEnd("t1")
  \/ ContError("t1")
  \/ Cleanup("t1")
  \/ EmitFinished("t1")
  \/ stop_chat_streaming("s1")

SpecEcho == Init /\ [][NextEcho]_vars


\* ------------------------------------------------------------ text functions
\* The texts the functions are called with: every sequence of delimiters,
\* call payloads and prose up to MaxTextLen symbols.
TextSymbols == {OPEN_CALL, CLOSE_CALL, "A", "B", "x"}
Texts == UNION {[1..n -> TextSymbols] : n \in 0..MaxTextLen}

InitText ==
  /\ InitTurns
  /\ input \in Texts
  /\ output = NoOutput
  /\ InitNoCalls
  /\ InitNoTasks

\* let tool_calls = extract_all_tool_calls_from_xml(&full_response)
CallExtract ==
  /\ "extract_all_tool_calls_from_xml" \notin output.called
  /\ output' = [output EXCEPT !.called = @ \cup {"extract_all_tool_calls_from_xml"},
                              !.calls = extract_all_tool_calls_from_xml(input)]
  /\ UNCHANGED <<ACTIVE_STREAMS, cancel_rx, regVars, turnVars, stopVars, input, mcpVars, taskVars>>

\* has_incomplete_tool_call(&full_response)
CallHasIncomplete ==
  /\ "has_incomplete_tool_call" \notin output.called
  /\ output' = [output EXCEPT !.called = @ \cup {"has_incomplete_tool_call"},
                              !.incomplete = has_incomplete_tool_call(input)]
  /\ UNCHANGED <<ACTIVE_STREAMS, cancel_rx, regVars, turnVars, stopVars, input, mcpVars, taskVars>>

NextText == CallExtract \/ CallHasIncomplete

SpecText == InitText /\ [][NextText]_vars

\* The assistant messages of a history: every sequence of the four
\* delimiters, prose and newlines up to MaxTextLen symbols.
HistorySymbols == {OPEN_CALL, CLOSE_CALL, OPEN_RESP, CLOSE_RESP, "x", NL}
Histories == UNION {[1..n -> HistorySymbols] : n \in 0..MaxTextLen}

InitStrip ==
  /\ InitTurns
  /\ input \in Histories
  /\ output = NoOutput
  /\ InitNoCalls
  /\ InitNoTasks

\* let cleaned_content = strip_tool_xml_tags(&msg.content)
CallStrip ==
  /\ "strip_tool_xml_tags" \notin output.called
  /\ output' = [output EXCEPT !.called = @ \cup {"strip_tool_xml_tags"},
                              !.stripped = strip_tool_xml_tags(input)]
  /\ UNCHANGED <<ACTIVE_STREAMS, cancel_rx, regVars, turnVars, stopVars, input, mcpVars, taskVars>>

\* strip_tool_xml_tags called with what it returned.
CallStripAgain ==
  /\ "strip_tool_xml_tags" \in output.called
  /\ "again" \notin output.called
  /\ output' = [output EXCEPT !.called = @ \cup {"again"},
                              !.restripped = strip_tool_xml_tags(output.stripped)]
  /\ UNCHANGED <<ACTIVE_STREAMS, cancel_rx, regVars, turnVars, stopVars, input, mcpVars, taskVars>>

NextStrip == CallStrip \/ CallStripAgain

SpecStrip == InitStrip /\ [][NextStrip]_vars

\* ------------------------------------------------------------ call_mcp_tool
\* The slot holds a manager with connected servers; no call was made yet.
InitMcp ==
  /\ InitTurns
  /\ input = <<>>
  /\ output = NoOutput
  /\ InitNoTasks
  /\ MCP_MANAGER = ConnectedManager
  /\ mcp_pc = [c \in Calls |-> "idle"]
  /\ temp_manager = [c \in Calls |-> NoManager]
  /\ call_result = [c \in Calls |-> "none"]

\* call_mcp_tool is called: a tool named builtin_* goes to BUILTIN_TOOLS,
\* any other one to the manager.
call_mcp_tool(c, builtin) ==
  /\ mcp_pc[c] = "idle"
  /\ mcp_pc' = [mcp_pc EXCEPT ![c] = IF builtin THEN "execute_tool"
                                     ELSE "get_or_init_manager"]
  /\ UNCHANGED <<ACTIVE_STREAMS, cancel_rx, regVars, turnVars, stopVars, scanVars,
                 taskVars, MCP_MANAGER, temp_manager, call_result>>

\* BUILTIN_TOOLS.execute_tool(..).await returns; the call returns with it.
BuiltinReturn(c, ok) ==
  /\ mcp_pc[c] = "execute_tool"
  /\ mcp_pc' = [mcp_pc EXCEPT ![c] = "returned"]
  /\ call_result' = [call_result EXCEPT ![c] = IF ok THEN "Ok" ELSE "Err(tool)"]
  /\ UNCHANGED <<ACTIVE_STREAMS, cancel_rx, regVars, turnVars, stopVars, scanVars,
                 taskVars, MCP_MANAGER, temp_manager>>

\* get_or_init_manager: under the lock, an empty slot is filled with
\* McpManager::new(config), unless the configuration cannot be loaded.
get_or_init_manager(c) ==
  /\ mcp_pc[c] = "get_or_init_manager"
  /\ IF MCP_MANAGER = NoManager
     THEN \/ /\ MCP_MANAGER' = McpManager_new(c)
             /\ mcp_pc' = [mcp_pc EXCEPT ![c] = "take"]
             /\ UNCHANGED call_result
          \/ /\ mcp_pc' = [mcp_pc EXCEPT ![c] = "returned"]
             /\ call_result' = [call_result EXCEPT ![c] = "Err(Failed to load config)"]
             /\ UNCHANGED MCP_MANAGER
     ELSE /\ mcp_pc' = [mcp_pc EXCEPT ![c] = "take"]
          /\ UNCHANGED <<MCP_MANAGER, call_result>>
  /\ UNCHANGED <<ACTIVE_STREAMS, cancel_rx, regVars, turnVars, stopVars, scanVars,
                 taskVars, temp_manager>>

\* let temp_manager = { manager_guard.take().ok_or_else(..)? }
TakeManager(c) ==
  /\ mcp_pc[c] = "take"
  /\ IF MCP_MANAGER = NoManager
     THEN /\ mcp_pc' = [mcp_pc EXCEPT ![c] = "returned"]
          /\ call_result' = [call_result EXCEPT ![c] = "Err(Manager not initialized)"]
          /\ UNCHANGED <<MCP_MANAGER, temp_manager>>
     ELSE /\ temp_manager' = [temp_manager EXCEPT ![c] = MCP_MANAGER]
          /\ MCP_MANAGER' = NoManager
          /\ mcp_pc' = [mcp_pc EXCEPT ![c] = "call"]
          /\ UNCHANGED call_result
  /\ UNCHANGED <<ACTIVE_STREAMS, cancel_rx, regVars, turnVars, stopVars, scanVars,
                 taskVars>>

\* temp_manager.call_mcp_tool(&tool_name, arguments).await returns.
ManagerCallReturn(c, ok) ==
  /\ mcp_pc[c] = "call"
  /\ mcp_pc' = [mcp_pc EXCEPT ![c] = "put_back"]
  /\ call_result' = [call_result EXCEPT ![c] =
                       IF ok THEN "Ok" ELSE "Err(Failed to call MCP tool)"]
  /\ UNCHANGED <<ACTIVE_STREAMS, cancel_rx, regVars, turnVars, stopVars, scanVars,
                 taskVars, MCP_MANAGER, temp_manager>>

\* *manager_guard = Some(temp_manager); then the call returns call_result.
PutBack(c) ==
  /\ mcp_pc[c] = "put_back"
  /\ MCP_MANAGER' = temp_manager[c]
  /\ temp_manager' = [temp_manager EXCEPT ![c] = NoManager]
  /\ mcp_pc' = [mcp_pc EXCEPT ![c] = "returned"]
  /\ UNCHANGED <<ACTIVE_STREAMS, cancel_rx, regVars, turnVars, stopVars, scanVars,
                 taskVars, call_result>>

NextMcp ==
  \E c \in Calls :
    \/ \E builtin \in BOOLEAN : call_mcp_tool(c, builtin)
    \/ \E ok \in BOOLEAN : BuiltinReturn(c, ok)
    \/ get_or_init_manager(c)
    \/ TakeManager(c)
    \/ \E ok \in BOOLEAN : ManagerCallReturn(c, ok)
    \/ PutBack(c)

SpecMcp == InitMcp /\ [][NextMcp]_vars

\* ------------------------------------------------------------ task scheduler
\* TaskScheduler::add_interval: the first start + k * interval after now.
RECURSIVE add_interval(_, _, _)
add_interval(start, interval, now) ==
  IF start <= now THEN add_interval(start + interval, interval, now) ELSE start

\* TaskScheduler::calculate_next_run, for the triggers DateTime and
\* EveryNMinutes; time is counted in minutes.
calculate_next_run(task, now) ==
  IF ~task.enabled THEN None
  ELSE CASE task.trigger_time.type = "DateTime" ->
              IF task.trigger_time.v > now THEN Some(task.trigger_time.v)
              ELSE IF task.repeat_interval.some
                   THEN Some(add_interval(task.trigger_time.v, task.repeat_interval.v, now))
                   ELSE None
         [] task.trigger_time.type = "EveryNMinutes" ->
              IF task.last_run.some
              THEN LET next == task.last_run.v + task.trigger_time.v
                   IN  Some(IF next > now THEN next ELSE now + task.trigger_time.v)
              ELSE Some(now + task.trigger_time.v)

\* What create_task is called with: a one-time task with and without
\* auto_delete, and two repeating tasks with auto_delete.
TaskConfigs ==
  { [trigger_time |-> [type |-> "DateTime", v |-> 1], repeat_interval |-> None,
     auto_delete |-> TRUE],
    [trigger_time |-> [type |-> "DateTime", v |-> 1], repeat_interval |-> None,
     auto_delete |-> FALSE],
    [trigger_time |-> [type |-> "DateTime", v |-> 1], repeat_interval |-> Some(1),
     auto_delete |-> TRUE],
    [trigger_time |-> [type |-> "EveryNMinutes", v |-> 1], repeat_interval |-> None,
     auto_delete |-> TRUE] }

OtherConfig ==
  [trigger_time |-> [type |-> "DateTime", v |-> 1], repeat_interval |-> None,
   auto_delete |-> FALSE]

\* The Task create_task builds and stores.
create_task(id, cfg, now) ==
  LET task == [id |-> id, enabled |-> TRUE, trigger_time |-> cfg.trigger_time,
               repeat_interval |-> cfg.repeat_interval, last_run |-> None,
               next_run |-> None, run_count |-> 0, auto_delete |-> cfg.auto_delete]
  IN  [task EXCEPT !.next_run = calculate_next_run(task, now)]

\* TaskScheduler::update_task and TaskScheduler::remove_task
update_task(m, task) == [id \in DOMAIN m \cup {task.id} |-> IF id = task.id THEN task ELSE m[id]]
remove_task(m, id) == [k \in DOMAIN m \ {id} |-> m[k]]

TaskExecutionLog(id, at, status) == [task_id |-> id, executed_at |-> at, status |-> status]

\* TaskScheduler::get_task_logs
get_task_logs(logs, id) == SelectSeq(logs, LAMBDA l : l.task_id = id)

\* TaskScheduler::add_execution_log
add_execution_log(logs, new_log) ==
  LET task_logs == get_task_logs(logs, new_log.task_id)
  IN  IF Len(task_logs) >= MaxLogsPerTask
      THEN Append(SelectSeq(logs, LAMBDA l : l.task_id # new_log.task_id), new_log)
      ELSE Append(logs, new_log)

\* Two tasks were created at minute 0, the second one a one-time task
\* without auto_delete; the scheduler loop is running.
InitTasks ==
  /\ InitTurns
  /\ input = <<>>
  /\ output = NoOutput
  /\ InitNoCalls
  /\ \E cfg \in TaskConfigs :
       tasks = [id \in TaskIds |-> create_task(id, IF id = "k1" THEN cfg ELSE OtherConfig, 0)]
  /\ utc_now = 0
  /\ exec = [e \in Execs |-> NoExec]
  /\ execution_logs = <<>>
  /\ logs_added = [id \in TaskIds |-> 0]

FreeExecs(ex) == {e \in Execs : ex[e].pc = "free"}
Min(S) == CHOOSE x \in S : \A y \in S : x <= y

\* tokio::spawn(async move { execute_task_action(&task, app_handle).await })
\* for every task of ids, each with a clone of the task.
RECURSIVE spawn(_, _, _)
spawn(ex, ids, origin) ==
  IF ids = {} THEN ex
  ELSE LET id == CHOOSE k \in ids : TRUE
           e == Min(FreeExecs(ex))
       IN  spawn([ex EXCEPT ![e] = [pc |-> "action", task |-> tasks[id],
                                    origin |-> origin, execution_success |-> FALSE]],
                 ids \ {id}, origin)

\* A minute passes.
ClockTick ==
  /\ utc_now < MaxNow
  /\ utc_now' = utc_now + 1
  /\ UNCHANGED <<ACTIVE_STREAMS, cancel_rx, regVars, turnVars, stopVars, scanVars,
                 mcpVars, tasks, exec, execution_logs, logs_added>>

\* The command toggle_task.
toggle_task(id) ==
  /\ id \in DOMAIN tasks
  /\ LET task == [tasks[id] EXCEPT !.enabled = ~tasks[id].enabled]
     IN  tasks' = update_task(tasks, [task EXCEPT !.next_run = calculate_next_run(task, utc_now)])
  /\ UNCHANGED <<ACTIVE_STREAMS, cancel_rx, regVars, turnVars, stopVars, scanVars,
                 mcpVars, utc_now, exec, execution_logs, logs_added>>

\* The command execute_task_manually: the task is cloned and its execution
\* spawned, enabled or not.
execute_task_manually(id) ==
  /\ id \in DOMAIN tasks
  /\ FreeExecs(exec) # {}
  /\ exec' = spawn(exec, {id}, "manual")
  /\ UNCHANGED <<ACTIVE_STREAMS, cancel_rx, regVars, turnVars, stopVars, scanVars,
                 mcpVars, tasks, utc_now, execution_logs, logs_added>>

\* The tasks one pass of the scheduler loop finds due.
tasks_to_execute ==
  {id \in DOMAIN tasks : /\ tasks[id].enabled
                         /\ tasks[id].next_run.some
                         /\ tasks[id].next_run.v <= utc_now}

\* One pass of the scheduler loop, a second after the one before: an
\* execution is spawned for every due task. All passes that find no due
\* task leave the state as it is.
SchedulerTick ==
  /\ tasks_to_execute # {}
  /\ Cardinality(tasks_to_execute) <= Cardinality(FreeExecs(exec))
  /\ exec' = spawn(exec, tasks_to_execute, "scheduler")
  /\ UNCHANGED <<ACTIVE_STREAMS, cancel_rx, regVars, turnVars, stopVars, scanVars,
                 mcpVars, tasks, utc_now, execution_logs, logs_added>>

\* execute_show_notification or execute_mcp_function returns: the log is
\* built from the result.
ActionReturn(e, ok) ==
  /\ exec[e].pc = "action"
  /\ exec' = [exec EXCEPT ![e].pc = "update", ![e].execution_success = ok]
  /\ UNCHANGED <<ACTIVE_STREAMS, cancel_rx, regVars, turnVars, stopVars, scanVars,
                 mcpVars, tasks, utc_now, execution_logs, logs_added>>

\* Under the lock: the stored task gets last_run, run_count and next_run,
\* and is stored again unless it is to be deleted.
UpdateTask(e) ==
  /\ exec[e].pc = "update"
  /\ IF exec[e].task.id \in DOMAIN tasks
     THEN LET stored == tasks[exec[e].task.id]
              ran == [stored EXCEPT !.last_run = Some(utc_now),
                                    !.run_count = @ + 1]
              updated_task == [ran EXCEPT !.next_run = calculate_next_run(ran, utc_now)]
              should_delete == /\ updated_task.auto_delete
                               /\ ~updated_task.next_run.some
                               /\ exec[e].execution_success
          IN  /\ tasks' = IF should_delete THEN tasks ELSE update_task(tasks, updated_task)
              /\ exec' = [exec EXCEPT ![e].pc = IF should_delete THEN "remove"
                                                ELSE "add_log"]
     ELSE /\ exec' = [exec EXCEPT ![e].pc = "add_log"]
          /\ UNCHANGED tasks
  /\ UNCHANGED <<ACTIVE_STREAMS, cancel_rx, regVars, turnVars, stopVars, scanVars,
                 mcpVars, utc_now, execution_logs, logs_added>>

\* if should_delete { scheduler.remove_task(&task.id); .. }
RemoveTask(e) ==
  /\ exec[e].pc = "remove"
  /\ tasks' = remove_task(tasks, exec[e].task.id)
  /\ exec' = [exec EXCEPT ![e].pc = "add_log"]
  /\ UNCHANGED <<ACTIVE_STREAMS, cancel_rx, regVars, turnVars, stopVars, scanVars,
                 mcpVars, utc_now, execution_logs, logs_added>>

\* scheduler.add_execution_log(log.clone()), then the task-executed event.
AddLog(e) ==
  /\ exec[e].pc = "add_log"
  /\ execution_logs' = add_execution_log(execution_logs,
       TaskExecutionLog(exec[e].task.id, logs_added[exec[e].task.id] + 1,
                        IF exec[e].execution_success THEN "Success" ELSE "Failed"))
  /\ logs_added' = [logs_added EXCEPT ![exec[e].task.id] = @ + 1]
  /\ exec' = [exec EXCEPT ![e].pc = "done"]
  /\ UNCHANGED <<ACTIVE_STREAMS, cancel_rx, regVars, turnVars, stopVars, scanVars,
                 mcpVars, tasks, utc_now>>

NextTasks ==
  \/ ClockTick
  \/ SchedulerTick
  \/ \E id \in TaskIds : toggle_task(id)
  \/ \E id \in TaskIds : execute_task_manually(id)
  \/ \E e \in Execs :
       \/ \E ok \in BOOLEAN : ActionReturn(e, ok)
       \/ UpdateTask(e)
       \/ RemoveTask(e)
       \/ AddLog(e)

SpecTasks == InitTasks /\ [][NextTasks]_vars

\* ------------------------------------------------------------ execution logs
\* Nothing was logged yet.
InitLogs ==
  /\ InitTurns
  /\ input = <<>>
  /\ output = NoOutput
  /\ InitNoCalls
  /\ InitNoTasks

\* scheduler.add_execution_log(log) for a log of task id; the logs of a
\* task are stamped in the order they are added.
CallAddExecutionLog(id) ==
  /\ logs_added[id] < (IF id = "k1" THEN MaxAdds ELSE MaxOtherAdds)
  /\ execution_logs' = add_execution_log(execution_logs,
       TaskExecutionLog(id, logs_added[id] + 1, "Success"))
  /\ logs_added' = [logs_added EXCEPT ![id] = @ + 1]
  /\ UNCHANGED <<ACTIVE_STREAMS, cancel_rx, regVars, turnVars, stopVars, scanVars,
                 mcpVars, tasks, utc_now, exec>>

NextLogs == \E id \in TaskIds : CallAddExecutionLog(id)

SpecLogs == InitLogs /\ [][NextLogs]_vars

\* ------------------------------------------------------------ properties
Indices(t, ev) == {i \in 1..Len(log[t]) : log[t][i].ev = ev}
Count(t, ev) == Cardinality(Indices(t, ev))
\* The completion signal of a turn that emitted one.
Terminal(t) == log[t][CHOOSE i \in Indices(t, "chat-finished") : TRUE].arg
\* The backend stream of the turn is open and being consumed.
Consuming(t) == pc[t] \in {"select", "execute_tool_call"}

\* C1: within one turn execute_tool_call is never entered twice with the
\* same (name, canonical arguments) pair, however the content arrives and
\* however often the accumulator is scanned again.
C1_NoRepeatedExecution ==
  \A t \in Turns : \A i, j \in Indices(t, "execute_tool_call") :
    i # j => log[t][i].arg # log[t][j].arg

\* A second block of an executed call arrived in later items and was scanned.
C1_Witness ==
  \E t \in Turns :
    /\ pc[t] = "select"
    /\ consumed[t] >= 2
    /\ Count(t, "execute_tool_call") = 1
    /\ Len(extract_all_tool_calls_from_xml(full_response[t])) >= 2

C3_CancelMidStream ==
  \A t \in Turns :
    signalled_at[t] \in {"select", "execute_tool_call"} =>
      /\ pc[t] = "returned" => Terminal(t).cancelled
      /\ \A i \in Indices(t, "cancel_rx.recv") :
           \A j \in Indices(t, "chat-token") : j < i

\* C4: with a signal queued at the race point, the step the turn takes is
\* never a completion of stream.next().
C4_SignalBeforeNextToken ==
  [][\A t \in Turns :
       (pc[t] = "select" /\ cancel_rx[t] = "signalled" /\ Len(log'[t]) > Len(log[t]))
         => log'[t][Len(log[t]) + 1].ev # "stream.next"]_vars

\* C5: a turn that stop_chat_streaming found and signalled, wherever it
\* stood between registration and retirement, ends with cancelled:true.
C5_StopSuccessEndsCancelled ==
  \A t \in Turns :
    (signalled_at[t] # "none" /\ pc[t] = "returned") => Terminal(t).cancelled

\* C6: while the backend stream is open and the turn was not signalled its
\* id is registered, and the id is retired before a continuation runs.
C6_RegisteredExactlyWhileStreamOpen ==
  \A t \in Turns :
    /\ (pc[t] = "register" \/ Consuming(t)) /\ signalled_at[t] = "none"
         => ACTIVE_STREAMS[stream_id(t)] = t
    /\ pc[t] \in {"cont_create", "cont_stream"} => ACTIVE_STREAMS[stream_id(t)] # t

StopStep == stop_calls' # stop_calls
RetireStep(t) == pc[t] = "cleanup" /\ pc'[t] = "emit_finished"

\* C8: a stop for an id the map does not hold answers not found and changes
\* neither the map nor any channel; a retire of such an id changes neither;
\* and a stop or retire of an id leaves every other id's entry alone.
C8_UnregisteredIsNoOp ==
  [][/\ StopStep =>
          /\ last_stop'.found = (ACTIVE_STREAMS[last_stop'.id] # NoSender)
          /\ ~last_stop'.found =>
               (ACTIVE_STREAMS' = ACTIVE_STREAMS /\ cancel_rx' = cancel_rx)
          /\ \A id \in StreamIds \ {last_stop'.id} :
               ACTIVE_STREAMS'[id] = ACTIVE_STREAMS[id]
     /\ \A t \in Turns : RetireStep(t) =>
          /\ ACTIVE_STREAMS[stream_id(t)] = NoSender =>
               (ACTIVE_STREAMS' = ACTIVE_STREAMS /\ cancel_rx' = cancel_rx)
          /\ \A id \in StreamIds \ {stream_id(t)} :
               ACTIVE_STREAMS'[id] = ACTIVE_STREAMS[id]]_vars

\* A stop took a turn's entry out, a later stop found nothing, and the turn
\* then retired the id the map no longer held, all while the other turn's
\* id stayed registered.
C8_Witness ==
  \E t, u \in Turns :
    /\ stop_calls = 2 /\ ~last_stop.found
    /\ signalled_at[t] # "none"
    /\ pc[t] = "emit_finished"
    /\ stream_id(u) # stream_id(t)
    /\ ACTIVE_STREAMS[stream_id(u)] = u

\* C9: registering an id the map already holds replaces the entry, other
\* ids untouched, and a stop that finds the id signals the receiver of the
\* turn that registered it last.
C9_LastRegistrationWins ==
  [][/\ \A t \in Turns : (pc[t] = "register" /\ pc'[t] = "select") =>
          /\ ACTIVE_STREAMS'[stream_id(t)] = t
          /\ \A id \in StreamIds \ {stream_id(t)} :
               ACTIVE_STREAMS'[id] = ACTIVE_STREAMS[id]
     /\ (StopStep /\ last_stop'.found) =>
          /\ latest_registrant[last_stop'.id] # NoSender
          /\ cancel_rx'[latest_registrant[last_stop'.id]] = "signalled"
          /\ \A t \in Turns \ {latest_registrant[last_stop'.id]} :
               cancel_rx'[t] = cancel_rx[t]]_vars

\* A turn registered over another turn's entry and was then signalled.
C9_Witness ==
  \E t, u \in Turns :
    /\ t # u /\ stream_id(t) = stream_id(u)
    /\ replaced_prior[t]
    /\ signalled_at[t] # "none"
    /\ signalled_at[u] = "none"
    /\ pc[u] \in {"select", "cleanup", "emit_finished", "returned"}

\* C10: a continuation request is sent only right after stream.next()
\* returned None, never after the cancel branch or a stream error.
C10_ContinuationOnlyAfterNaturalEnd ==
  \A t \in Turns : \A i \in Indices(t, "continuation_request") :
    i > 1 /\ log[t][i - 1] = Entry("stream.next", "None")

\* The loop of process_stream_with_tool_calls was left.
Exited(t) ==
  pc[t] \in {"cont_create", "cont_stream", "cleanup", "emit_finished", "returned"}
\* The branch the loop was left on.
Logged(t, e) == \E i \in 1..Len(log[t]) : log[t][i] = e
NaturallyFinished(t) == Logged(t, Entry("stream.next", "None"))
Errored(t) == Logged(t, Entry("stream.next", "Err"))

\* C11: a turn sends at most one continuation request, and enters no tool
\* execution after it, whatever the continuation streams.
C11_OneContinuationNeverScanned ==
  \A t \in Turns :
    /\ Count(t, "continuation_request") <= 1
    /\ \A i \in Indices(t, "continuation_request") :
         \A j \in Indices(t, "execute_tool_call") : j < i

\* A turn returned whose continuation streamed a whole call block of a tool
\* that was never executed, and appended it to the accumulator.
C11_Witness ==
  \E t \in Turns :
    LET calls == extract_all_tool_calls_from_xml(continued_response[t])
    IN /\ pc[t] = "returned"
       /\ Count(t, "continuation_request") = 1
       /\ calls # <<>>
       /\ ~already_executed(executed_tools[t], calls[1])
       /\ Len(extract_all_tool_calls_from_xml(full_response[t])) >= 2

\* C12: once the loop is left exactly one of cancelled, naturally finished
\* (stream.next() gave None) and errored (stream.next() gave Err) holds, and
\* none of them holds before.
C12_ExactlyOneOutcome ==
  \A t \in Turns :
    /\ Exited(t) =>
         \/ was_cancelled[t] /\ ~NaturallyFinished(t) /\ ~Errored(t)
         \/ ~was_cancelled[t] /\ NaturallyFinished(t) /\ ~Errored(t)
         \/ ~was_cancelled[t] /\ ~NaturallyFinished(t) /\ Errored(t)
    /\ Consuming(t) => ~was_cancelled[t] /\ ~NaturallyFinished(t) /\ ~Errored(t)

\* A turn returned on a stream error while a cancel signal was queued: it is
\* errored and not cancelled.
C12_Witness ==
  \E t \in Turns :
    /\ pc[t] = "returned"
    /\ signalled_at[t] = "select"
    /\ Errored(t)
    /\ ~Terminal(t).cancelled

\* What the UI layer receives: the entries of the log that are app.emit calls.
IsUIEvent(e) ==
  e.ev \in {"chat-token", "tool-call", "chat-error", "chat-finished", "chat-usage"}
Emitted(t) == SelectSeq(log[t], IsUIEvent)
\* A tool-call event that names the call.
Names(e, call) == e.ev = "tool-call" /\ e.arg[1] = call[1] /\ e.arg[2] = call[2]
\* The execution entered at entry i of the log has returned.
Returned(t, i) == \E j \in Indices(t, "tool_result") : j > i
\* A content token that carries a tool-response block.
IsResponseToken(e) ==
  e.ev = "chat-token" /\ Len(e.arg) >= 2 /\ e.arg[1] = NL /\ e.arg[2] = OPEN_RESP

\* C13: every tool execution is announced to the UI by an event naming the
\* call before it is entered, and once it has returned, with Ok or with Err,
\* exactly one event naming the call carries its outcome.
C13_ToolEventsAroundExecution ==
  \A t \in Turns : \A i \in Indices(t, "execute_tool_call") :
    /\ \E j \in 1..(i - 1) : Names(log[t][j], log[t][i].arg)
    /\ Returned(t, i) =>
         Cardinality({j \in (i + 1)..Len(log[t]) : Names(log[t][j], log[t][i].arg)}) = 1

\* C14: in what the UI receives of one turn, a tool-response token comes
\* right after a tool-call event, which comes right after a content token;
\* a tool-call event is followed by its response token; and the terminal
\* event is the last event of the turn.
C14_StrictEventOrder ==
  \A t \in Turns :
    LET ui == Emitted(t)
    IN \A k \in 1..Len(ui) :
         /\ IsResponseToken(ui[k]) =>
              k > 2 /\ ui[k - 1].ev = "tool-call" /\ ui[k - 2].ev = "chat-token"
         /\ ui[k].ev = "tool-call" =>
              k < Len(ui) /\ IsResponseToken(ui[k + 1])
         /\ ui[k].ev = "chat-finished" => k = Len(ui)

IsPrefix(a, b) == Len(a) <= Len(b) /\ SubSeq(b, 1, Len(a)) = a
IsSuffix(a, b) == Len(a) <= Len(b) /\ SubSeq(b, Len(b) - Len(a) + 1, Len(b)) = a
\* The first entry the step adds to the log of t is e.
Logs(t, e) == Len(log'[t]) > Len(log[t]) /\ log'[t][Len(log[t]) + 1] = e

\* C15: in every step the accumulator of a turn before the step is a
\* prefix of the accumulator after it.
C15_AccumulatorAppendOnly ==
  [][\A t \in Turns : IsPrefix(full_response[t], full_response'[t])]_vars

\* A turn returned whose accumulator took content, a tool-response block
\* and, at its end, the text of the continuation.
C15_Witness ==
  \E t \in Turns :
    /\ pc[t] = "returned"
    /\ check_if_continuation_needed(full_response[t])
    /\ continued_response[t] # <<>>
    /\ Len(full_response[t]) > Len(continued_response[t])
    /\ IsSuffix(continued_response[t], full_response[t])

\* C16: when a tool execution returns Err, the error-text response block
\* is appended to the accumulator and the turn stays in its loop: it
\* enters the next call of the for loop that was not executed, or polls
\* select! again when there is none.
C16_ToolFailureNotFatal ==
  [][\A t \in Turns : Logs(t, Entry("tool_result", "Err")) =>
       /\ full_response'[t] = full_response[t] \o error_response_text(<<"x">>)
       /\ log'[t][Len(log[t]) + 2] = chat_token(error_response_text(<<"x">>))
       /\ LET rest == skip_executed(executed_tools[t], Tail(tool_calls[t]))
          IN IF rest = <<>>
             THEN pc'[t] = "select" /\ Len(log'[t]) = Len(log[t]) + 2
             ELSE /\ pc'[t] = "execute_tool_call"
                  /\ log'[t][Len(log[t]) + 3] = Entry("execute_tool_call", Head(rest))]_vars

\* After a failed tool execution the turn consumed a later item and
\* executed a later call, which failed as well.
C16_Witness ==
  \E t \in Turns : \E i \in Indices(t, "tool_result") :
    /\ log[t][i].arg = "Err"
    /\ \E j \in Indices(t, "stream.next") : j > i /\ log[t][j].arg = "Ok"
    /\ \E j \in Indices(t, "execute_tool_call") : j > i
    /\ \E j \in Indices(t, "tool_result") : j > i /\ log[t][j].arg = "Err"

\* C17: when the continuation fails, at the request or on its stream, the
\* bracketed note is appended to the accumulator, whose text so far stays
\* as it was, and the turn goes on to its cleanup; such a turn leaves
\* emit_finished only by returning with the completion signal emitted.
C17_ContinuationFailureKeepsOutput ==
  [][\A t \in Turns :
       /\ Logs(t, Entry("continue_conversation_after_tools", "Err")) =>
            /\ full_response'[t] = full_response[t] \o continuation_error_text(ErrText)
            /\ pc'[t] = "cleanup"
       /\ ( /\ Logged(t, Entry("continue_conversation_after_tools", "Err"))
            /\ pc[t] = "emit_finished" /\ pc'[t] # pc[t] ) =>
            /\ pc'[t] = "returned"
            /\ full_response'[t] = full_response[t]
            /\ IsSuffix(continuation_error_text(ErrText), full_response[t])
            /\ Logs(t, chat_finished(was_cancelled[t], usage_data[t]))]_vars

\* A turn returned whose continuation failed on its stream after an item:
\* the accumulator is the primary output and the note, and the completion
\* signal was emitted.
C17_Witness ==
  \E t \in Turns :
    /\ pc[t] = "returned"
    /\ cont_consumed[t] >= 1
    /\ Logged(t, Entry("continue_conversation_after_tools", "Err"))
    /\ IsSuffix(continuation_error_text(ErrText), full_response[t])
    /\ check_if_continuation_needed(full_response[t])
    /\ Count(t, "chat-finished") = 1

\* C18: a turn emits chat-error once for each Err of its primary stream,
\* so at most once and never without one, and after it the turn polls
\* neither branch of select! again and enters no tool execution.
C18_StreamErrorEndsPrimaryStream ==
  \A t \in Turns :
    /\ Count(t, "chat-error") <= 1
    /\ Count(t, "chat-error") =
         Cardinality({i \in Indices(t, "stream.next") : log[t][i].arg = "Err"})
    /\ \A i \in Indices(t, "stream.next") : log[t][i].arg = "Err" =>
         /\ i < Len(log[t]) /\ log[t][i + 1].ev = "chat-error"
         /\ \A j \in (i + 1)..Len(log[t]) :
              log[t][j].ev \notin {"stream.next", "cancel_rx.recv",
                                   "execute_tool_call", "tool_result"}

\* A turn returned on a stream error after it had consumed and emitted
\* items, with items left to come.
C18_Witness ==
  \E t \in Turns :
    /\ pc[t] = "returned"
    /\ Count(t, "chat-error") = 1
    /\ consumed[t] >= 1 /\ consumed[t] < MaxTokens
    /\ Count(t, "chat-token") >= 1

\* C19: a turn signalled while none of its stream items was consumed
\* emits no content token, ends with cancelled:true, and its id is not
\* registered to it when it has returned.
C19_CancelBeforeAnyToken ==
  \A t \in Turns :
    no_token_at_signal[t] =>
      /\ Count(t, "chat-token") = 0
      /\ pc[t] = "returned" =>
           Terminal(t).cancelled /\ ACTIVE_STREAMS[stream_id(t)] # t

\* The open delimiters of a text, and the places where a well-formed block
\* starts: an open delimiter, one call payload, a close delimiter.
OpenAt(s) == {i \in 1..Len(s) : s[i] = OPEN_CALL}
BlockAt(s) ==
  {i \in 1..(Len(s) - 2) :
     s[i] = OPEN_CALL /\ s[i + 1] \in CallPayloads /\ s[i + 2] = CLOSE_CALL}
\* The calls of the well-formed blocks that start at i or later, in order.
RECURSIVE BlockCalls(_, _)
BlockCalls(s, i) ==
  IF i > Len(s) THEN <<>>
  ELSE (IF i \in BlockAt(s) THEN << <<name_of(s[i + 1]), args_of(s[i + 1])>> >> ELSE <<>>)
       \o BlockCalls(s, i + 1)
\* No open delimiter lies between an open delimiter and the close
\* delimiter that ends its block.
NonOverlapping(s) ==
  \A i, j \in OpenAt(s) : i < j =>
    \/ \E k \in (i + 1)..(j - 1) : s[k] = CLOSE_CALL
    \/ \A k \in (j + 1)..Len(s) : s[k] # CLOSE_CALL
\* The text ends in a block that was opened and not closed.
EndsUnterminated(s) ==
  \E i \in OpenAt(s) : \A k \in (i + 1)..Len(s) : s[k] # CLOSE_CALL
\* The last open delimiter has a close delimiter after it.
LastOpenClosed(s) ==
  \E i \in OpenAt(s) :
    /\ \A j \in OpenAt(s) : j <= i
    /\ \E k \in (i + 1)..Len(s) : s[k] = CLOSE_CALL

\* C20: for a text whose call blocks do not overlap the extractor returns
\* the calls of its well-formed blocks, one each, in the order of the text,
\* an unterminated block at the end adding none; has_incomplete_tool_call is
\* true for a text that ends in an unterminated block and false when the
\* last open delimiter has its close delimiter.
C20_ExtractionComplete ==
  /\ ("extract_all_tool_calls_from_xml" \in output.called /\ NonOverlapping(input)) =>
       output.calls = BlockCalls(input, 1)
  /\ "has_incomplete_tool_call" \in output.called =>
       /\ EndsUnterminated(input) => output.incomplete = TRUE
       /\ LastOpenClosed(input) => output.incomplete = FALSE

\* Both functions were called with a text of two well-formed blocks of
\* different tools.
C20_Witness ==
  /\ output.called = {"extract_all_tool_calls_from_xml", "has_incomplete_tool_call"}
  /\ NonOverlapping(input)
  /\ Len(BlockCalls(input, 1)) = 2
  /\ output.calls[1] # output.calls[2]
  /\ output.incomplete = FALSE

IsDelimiter(c) == c \in {OPEN_CALL, CLOSE_CALL, OPEN_RESP, CLOSE_RESP}
\* From i on the text is prose and complete blocks, one after the other:
\* every delimiter opens or closes a block and no block holds a delimiter.
RECURSIVE OnlyCompleteBlocks(_, _)
OnlyCompleteBlocks(s, i) ==
  IF i > Len(s) THEN TRUE
  ELSE IF s[i] \in {OPEN_CALL, OPEN_RESP}
       THEN \E c \in (i + 1)..Len(s) :
              /\ s[c] = (IF s[i] = OPEN_CALL THEN CLOSE_CALL ELSE CLOSE_RESP)
              /\ \A k \in (i + 1)..(c - 1) : ~IsDelimiter(s[k])
              /\ OnlyCompleteBlocks(s, c + 1)
       ELSE ~IsDelimiter(s[i]) /\ OnlyCompleteBlocks(s, i + 1)
\* The prose of such a text: what stands outside its blocks, in order.
RECURSIVE ProseOf(_, _)
ProseOf(s, i) ==
  IF i > Len(s) THEN <<>>
  ELSE IF s[i] = OPEN_CALL THEN ProseOf(s, find(s, i, CLOSE_CALL) + 1)
  ELSE IF s[i] = OPEN_RESP THEN ProseOf(s, find(s, i, CLOSE_RESP) + 1)
  ELSE <<s[i]>> \o ProseOf(s, i + 1)

\* C21: for a text of prose and complete call and response blocks, in any
\* order, strip_tool_xml_tags returns the prose outside the blocks (its
\* surrounding white space trimmed) and nothing of any block.
C21_StripRemovesEveryBlock ==
  ("strip_tool_xml_tags" \in output.called /\ OnlyCompleteBlocks(input, 1)) =>
    output.stripped = trim_nl(ProseOf(input, 1))

\* C22: strip_tool_xml_tags returns a text without delimiters as it is (but
\* for the white space around it), returns the empty text for a text made
\* of complete blocks only, and returns what it returned when it is called
\* with it again.
C22_StripFixedPoints ==
  /\ "strip_tool_xml_tags" \in output.called =>
       /\ (\A i \in 1..Len(input) : ~IsDelimiter(input[i])) =>
            output.stripped = trim_nl(input)
       /\ (OnlyCompleteBlocks(input, 1) /\ ProseOf(input, 1) = <<>>) =>
            output.stripped = <<>>
  /\ "again" \in output.called => output.restripped = output.stripped

\* C23: while a tool execution is awaited the turn consumes no stream
\* item and emits nothing, and the accumulator stays as it is until the
\* execution returns and its response block is appended.
C23_ToolExecutionBlocksStream ==
  [][\A t \in Turns : pc[t] = "execute_tool_call" =>
       /\ consumed'[t] = consumed[t]
       /\ \/ log'[t] = log[t] /\ full_response'[t] = full_response[t]
          \/ /\ Logs(t, Entry("tool_result", "Ok")) \/ Logs(t, Entry("tool_result", "Err"))
             /\ \E r \in ToolResults :
                  full_response'[t] = full_response[t] \o
                    (IF r.ok THEN tool_response_text(r.text) ELSE error_response_text(r.text))]_vars

\* A second tool execution is awaited, entered on an item that was pulled
\* after the first execution had returned, with items left to come.
C23_Witness ==
  \E t \in Turns : \E i \in Indices(t, "tool_result") :
    /\ pc[t] = "execute_tool_call"
    /\ consumed[t] = 2
    /\ \E j \in Indices(t, "stream.next") : j > i
    /\ log[t][Len(log[t])].ev = "execute_tool_call"

\* C24: a turn is marked cancelled only if a stop request found its own
\* registration and signalled it.
C24_NoSpuriousCancellation ==
  \A t \in Turns : was_cancelled[t] => signalled_at[t] # "none"

\* C25: the retire of a turn leaves a registration that is another turn's
\* as it is.
C25_RetireOnlyOwnRegistration ==
  [][\A t \in Turns : RetireStep(t) =>
       \A id \in StreamIds :
         ACTIVE_STREAMS[id] \notin {t, NoSender} =>
           ACTIVE_STREAMS'[id] = ACTIVE_STREAMS[id]]_vars

\* What the model generated: the content of the items of the primary
\* stream, in order.
RECURSIVE ModelText(_, _)
ModelText(t, i) ==
  IF i >= Len(log[t]) THEN <<>>
  ELSE (IF log[t][i] = Entry("stream.next", "Ok") /\ log[t][i + 1].ev = "chat-token"
        THEN log[t][i + 1].arg ELSE <<>>)
       \o ModelText(t, i + 1)

\* C26: every call that is executed is the call of a block of the text
\* the model generated.
C26_OnlyModelCallsExecuted ==
  \A t \in Turns : \A i \in Indices(t, "execute_tool_call") :
    LET calls == extract_all_tool_calls_from_xml(ModelText(t, 1))
    IN \E k \in 1..Len(calls) : calls[k] = log[t][i].arg

\* C27: for every interleaving of two concurrent external tool calls, once
\* both calls have returned the manager slot holds the manager stored before
\* the calls, and neither call failed because the other one had the manager
\* taken out.
C27_ManagerSurvivesConcurrentCalls ==
  (\A c \in Calls : mcp_pc[c] = "returned")
    => /\ MCP_MANAGER = ConnectedManager
       /\ \A c \in Calls : call_result[c] # "Err(Manager not initialized)"

\* C28: the scheduler loop never starts a second execution of a task for
\* the same next_run value while the first one is still in flight and has
\* not yet advanced next_run.
C28_OneExecutionPerOccurrence ==
  \A e1, e2 \in Execs :
    ( /\ e1 < e2
      /\ exec[e1].origin = "scheduler" /\ exec[e2].origin = "scheduler"
      /\ exec[e1].task.id = exec[e2].task.id
      /\ exec[e1].task.next_run = exec[e2].task.next_run )
    => exec[e1].pc \notin {"action", "update"}

OneTime(task) == task.trigger_time.type = "DateTime" /\ ~task.repeat_interval.some

\* C29: an execution removes a task only if the task is a one-time task
\* with auto_delete whose execution succeeded; a repeating task, disabled
\* and executed manually or not, is never removed by auto-delete.
C29_AutoDeleteOnlyOneTime ==
  [][\A id \in TaskIds :
       (id \in DOMAIN tasks /\ id \notin DOMAIN tasks')
         => /\ OneTime(tasks[id])
            /\ tasks[id].auto_delete
            /\ \E e \in Execs : /\ exec[e].pc = "remove" /\ exec'[e].pc = "add_log"
                                /\ exec[e].task.id = id
                                /\ exec[e].execution_success]_vars

\* C30: the logs retained for a task are its most recent min(n, 100) logs
\* in insertion order, n being the number of logs added for it, whatever
\* was added for other tasks.
C30_LastHundredLogs ==
  \A id \in TaskIds :
    LET n == logs_added[id]
        m == IF n < MaxLogsPerTask THEN n ELSE MaxLogsPerTask
    IN  get_task_logs(execution_logs, id)
          = [i \in 1..m |-> TaskExecutionLog(id, n - m + i, "Success")]

====
